---- MODULE Spec2Model ----
(***************************************************************************)
(* Model of src/data_pipeline.py: the comments loader (load_to_sqlite),    *)
(* the distinct counts (count_posts_comments), the cleaner                 *)
(* (clean_comments), the merger (merge_submissions_comments) and the       *)
(* driver (main).                                                          *)
(*                                                                         *)
(* A CSV file is a header (a sequence of column names) and rows of text    *)
(* cells; a text is a sequence of one-character strings.  A DataFrame is   *)
(* a header and rows of typed cells.  A typed cell is a record             *)
(* [t, n, s]: t is the type tag, n the number and s the text.              *)
(***************************************************************************)
EXTENDS Integers, Sequences, FiniteSets, TLC

----------------------------------------------------------------------------
(* Typed cells                                                             *)

NaN == [t |-> "nan", n |-> 0, s |-> <<>>]
Str(s) == [t |-> "str", n |-> 0, s |-> s]
IntCell(n) == [t |-> "int", n |-> n, s |-> <<>>]
FloatCell(n) == [t |-> "float", n |-> n, s |-> <<>>]
Datetime(n) == [t |-> "datetime", n |-> n, s |-> <<>>]

Digits == {"0", "1", "2", "3", "4", "5", "6", "7", "8", "9"}

DigitVal(c) ==
    CASE c = "0" -> 0 [] c = "1" -> 1 [] c = "2" -> 2 [] c = "3" -> 3
      [] c = "4" -> 4 [] c = "5" -> 5 [] c = "6" -> 6 [] c = "7" -> 7
      [] c = "8" -> 8 [] c = "9" -> 9

DigitChar(d) ==
    CASE d = 0 -> "0" [] d = 1 -> "1" [] d = 2 -> "2" [] d = 3 -> "3"
      [] d = 4 -> "4" [] d = 5 -> "5" [] d = 6 -> "6" [] d = 7 -> "7"
      [] d = 8 -> "8" [] d = 9 -> "9"

Range(f) == {f[i] : i \in DOMAIN f}

(* pandas' CSV parser: a field is numeric when it is a non-empty run of    *)
(* decimal digits (the only numeric fields of the modelled files).         *)
IsNumericText(s) == Len(s) > 0 /\ \A i \in 1..Len(s) : s[i] \in Digits

RECURSIVE ParseInt(_)
ParseInt(s) ==
    IF Len(s) = 0 THEN 0
    ELSE 10 * ParseInt(SubSeq(s, 1, Len(s) - 1)) + DigitVal(s[Len(s)])

RECURSIVE IntToText(_)
IntToText(n) ==
    IF n < 10 THEN <<DigitChar(n)>>
    ELSE Append(IntToText(n \div 10), DigitChar(n % 10))

----------------------------------------------------------------------------
(* pd.read_csv: column type inference and parsing                          *)

(* The dtype the parser gives a column of text cells: an empty field is a  *)
(* missing value; a column whose present fields are all numeric is int64   *)
(* (float64 when a field is missing, also when all are); any other column  *)
(* holds its fields as strings (object).  A column without rows is object. *)
InferDtype(cells) ==
    IF Len(cells) = 0 THEN "object"
    ELSE IF \A i \in 1..Len(cells) : cells[i] = <<>> \/ IsNumericText(cells[i])
         THEN IF \E i \in 1..Len(cells) : cells[i] = <<>>
              THEN "float64" ELSE "int64"
         ELSE "object"

ParseCell(text, dtype) ==
    IF text = <<>> THEN NaN
    ELSE IF dtype = "int64" THEN IntCell(ParseInt(text))
    ELSE IF dtype = "float64" THEN FloatCell(ParseInt(text))
    ELSE Str(text)

ColumnText(csv, c) == [i \in 1..Len(csv.rows) |-> csv.rows[i][c]]

ReadCsv(csv) ==
    [cols |-> csv.cols,
     rows |-> [i \in 1..Len(csv.rows) |->
                 [c \in Range(csv.cols) |->
                    ParseCell(csv.rows[i][c], InferDtype(ColumnText(csv, c)))]]]

(* The dtype of a DataFrame column, from its cells. *)
Column(df, c) == [i \in 1..Len(df.rows) |-> df.rows[i][c]]

Dtype(df, c) ==
    LET col == Column(df, c) IN
    IF Len(col) = 0 THEN "object"
    ELSE IF \E i \in 1..Len(col) : col[i].t = "str" THEN "object"
    ELSE IF \A i \in 1..Len(col) : col[i].t = "datetime" THEN "datetime64"
    ELSE IF \A i \in 1..Len(col) : col[i].t = "int" THEN "int64"
    ELSE "float64"

----------------------------------------------------------------------------
(* DataFrame.drop(columns=..., errors='ignore')                            *)

RECURSIVE FilterSeq(_, _)
FilterSeq(seq, keep) ==
    IF Len(seq) = 0 THEN <<>>
    ELSE IF seq[1] \in keep THEN <<seq[1]>> \o FilterSeq(Tail(seq), keep)
    ELSE FilterSeq(Tail(seq), keep)

(* A drop that takes the listed columns away only when all are there. *)
DropColumnsAllOrNothing(df, names) ==
    LET keep == IF names \subseteq Range(df.cols)
                THEN Range(df.cols) \ names ELSE Range(df.cols)
    IN  [cols |-> FilterSeq(df.cols, keep),
         rows |-> [i \in 1..Len(df.rows) |-> [c \in keep |-> df.rows[i][c]]]]

DropColumns(df, names) ==
    LET keep == Range(df.cols) \ names IN
    [cols |-> FilterSeq(df.cols, keep),
     rows |-> [i \in 1..Len(df.rows) |-> [c \in keep |-> df.rows[i][c]]]]

AuthorFlairColumns ==
    {"author_flair_text", "author_flair_type",
     "author_flair_template_id", "author_flair_richtext"}

LinkFlairColumns ==
    {"link_flair_text", "link_flair_type",
     "link_flair_template_id", "link_flair_richtext"}

----------------------------------------------------------------------------
(* datetime.fromtimestamp(x, tz=timezone.utc).year                         *)

SecondsPerDay == 86400

(* Proleptic Gregorian date of the day `days` days after 1970-01-01. *)
CivilOfDays(days) ==
    LET z == days + 719468
        era == z \div 146097
        doe == z - era * 146097
        yoe == (doe - doe \div 1460 + doe \div 36524 - doe \div 146096) \div 365
        doy == doe - (365 * yoe + yoe \div 4 - yoe \div 100)
        mp == (5 * doy + 2) \div 153
        m == IF mp < 10 THEN mp + 3 ELSE mp - 9
    IN  [year |-> yoe + era * 400 + (IF m <= 2 THEN 1 ELSE 0),
         month |-> m,
         day |-> doy - (153 * mp + 2) \div 5 + 1]

YearOf(epoch) == CivilOfDays(epoch \div SecondsPerDay).year

(* fromtimestamp accepts a number and raises on NaN and on a string. *)
IsEpoch(cell) == cell.t \in {"int", "float"}

----------------------------------------------------------------------------
(* Series.str.replace(r"t\\d+_", "", regex=True)                           *)

Backslash == "\\"

(* The pattern is the raw string  t\\d+_ : the letter t, a literal          *)
(* backslash, one or more letters d, an underscore.  MatchLen is the       *)
(* length of the match starting at position i of s, 0 when there is none.  *)
RECURSIVE CountD(_, _)
CountD(s, i) ==
    IF i <= Len(s) /\ s[i] = "d" THEN 1 + CountD(s, i + 1) ELSE 0

MatchLen(s, i) ==
    IF i + 1 <= Len(s) /\ s[i] = "t" /\ s[i + 1] = Backslash
    THEN LET k == CountD(s, i + 2) IN
         IF k >= 1 /\ i + 2 + k <= Len(s) /\ s[i + 2 + k] = "_"
         THEN 3 + k ELSE 0
    ELSE 0

(* Every non-overlapping match, left to right, is replaced by "". *)
RECURSIVE ReplaceFrom(_, _)
ReplaceFrom(s, i) ==
    IF i > Len(s) THEN <<>>
    ELSE IF MatchLen(s, i) > 0 THEN ReplaceFrom(s, i + MatchLen(s, i))
    ELSE <<s[i]>> \o ReplaceFrom(s, i + 1)

StrReplace(cell) == IF cell.t = "str" THEN Str(ReplaceFrom(cell.s, 1)) ELSE NaN

----------------------------------------------------------------------------
(* Results of the operations: a DataFrame, or the exception raised.        *)

EmptyFrame == [cols |-> <<>>, rows |-> <<>>]
Ok(df) == [ok |-> TRUE, err |-> "", df |-> df]
Raise(e) == [ok |-> FALSE, err |-> e, df |-> EmptyFrame]

(* pd.read_csv(path): a missing path and an unparsable file raise. *)
ReadCsvFile(file) ==
    IF file.kind = "missing" THEN Raise("FileNotFoundError")
    ELSE IF file.kind = "malformed" THEN Raise("ParserError")
    ELSE Ok(ReadCsv(file))

(* df[c] = cells: replaces the column c, or appends it as the last one. *)
SetColumn(df, c, cells) ==
    [cols |-> IF c \in Range(df.cols) THEN df.cols ELSE Append(df.cols, c),
     rows |-> [i \in 1..Len(df.rows) |->
                 [k \in Range(df.cols) \cup {c} |->
                    IF k = c THEN cells[i] ELSE df.rows[i][k]]]]

----------------------------------------------------------------------------
(* clean_comments                                                          *)

(* The exception of fromtimestamp on the first cell that is no number. *)
(* A conversion that lets a missing epoch through. *)
RECURSIVE FirstBadEpochCoerce(_)
FirstBadEpochCoerce(cells) ==
    IF Len(cells) = 0 THEN ""
    ELSE IF cells[1].t = "str" THEN "TypeError"
    ELSE FirstBadEpochCoerce(Tail(cells))

RECURSIVE FirstBadEpoch(_)
FirstBadEpoch(cells) ==
    IF Len(cells) = 0 THEN ""
    ELSE IF cells[1].t = "nan" THEN "ValueError"
    ELSE IF cells[1].t = "str" THEN "TypeError"
    ELSE FirstBadEpoch(Tail(cells))

clean_comments(file) ==
    LET read == ReadCsvFile(file)
        comments == DropColumns(read.df, AuthorFlairColumns)
        utc == Column(comments, "created_utc")
        created_time == [i \in 1..Len(utc) |-> Datetime(utc[i].n)]
        year == [i \in 1..Len(utc) |-> IntCell(YearOf(utc[i].n))]
    IN  IF ~read.ok THEN read
        ELSE IF "created_utc" \notin Range(comments.cols) THEN Raise("KeyError")
        ELSE IF FirstBadEpoch(utc) # "" THEN Raise(FirstBadEpoch(utc))
        \* apply on a Series without rows keeps its object dtype, and the
        \* .dt accessor raises on a Series that is not datetime-like
        ELSE IF Len(utc) = 0 THEN Raise("AttributeError")
        ELSE Ok(SetColumn(SetColumn(comments, "created_time", created_time),
                          "year", year))
----------------------------------------------------------------------------
(* pd.merge(submissions, comments, how="outer", left_on="submission_id",   *)
(*          right_on="parent_clean_id", indicator=True)                    *)

(* The characters of the modelled texts, in code-point order. *)
AsciiOrder ==
    <<"0", "1", "2", "3", "4", "5", "6", "7", "8", "9", "\\", "_",
      "a", "b", "c", "d", "e", "f", "g", "h", "i", "j", "k", "l", "m",
      "n", "o", "p", "q", "r", "s", "t", "u", "v", "w", "x", "y", "z">>

CharCode(c) == CHOOSE i \in 1..Len(AsciiOrder) : AsciiOrder[i] = c

(* a < b as Python compares strings. *)
RECURSIVE LexLess(_, _)
LexLess(a, b) ==
    IF Len(b) = 0 THEN FALSE
    ELSE IF Len(a) = 0 THEN TRUE
    ELSE IF a[1] # b[1] THEN CharCode(a[1]) < CharCode(b[1])
    ELSE LexLess(Tail(a), Tail(b))

(* The distinct key texts in ascending order. *)
RECURSIVE SortTexts(_)
SortTexts(S) ==
    IF S = {} THEN <<>>
    ELSE LET m == CHOOSE x \in S : \A y \in S \ {x} : LexLess(x, y)
         IN  <<m>> \o SortTexts(S \ {m})

(* The key groups of an outer join: the distinct keys of both sides in     *)
(* lexicographic order, the missing key (which matches itself) last.       *)
KeyGroups(lkeys, rkeys) ==
    LET all == Range(lkeys) \cup Range(rkeys)
        texts == SortTexts({k.s : k \in {x \in all : x.t = "str"}})
    IN  [i \in 1..Len(texts) |-> Str(texts[i])]
        \o (IF NaN \in all THEN <<NaN>> ELSE <<>>)

(* The positions of key k in keys, ascending. *)
RECURSIVE PositionsFrom(_, _, _)
PositionsFrom(keys, k, i) ==
    IF i > Len(keys) THEN <<>>
    ELSE IF keys[i] = k THEN <<i>> \o PositionsFrom(keys, k, i + 1)
    ELSE PositionsFrom(keys, k, i + 1)

(* The pairs <<left position, right position>> of one key group; 0 stands  *)
(* for the missing side.  Matching rows give their cartesian product.      *)
RECURSIVE Product(_, _, _, _)
Product(L, R, a, b) ==
    IF a > Len(L) THEN <<>>
    ELSE IF b > Len(R) THEN Product(L, R, a + 1, 1)
    ELSE <<(<<L[a], R[b]>>)>> \o Product(L, R, a, b + 1)

(* how="inner": a key that only one side has gives no row. *)
GroupPairsInner(lkeys, rkeys, k) ==
    LET L == PositionsFrom(lkeys, k, 1)
        R == PositionsFrom(rkeys, k, 1)
    IN  IF Len(L) > 0 /\ Len(R) > 0 THEN Product(L, R, 1, 1) ELSE <<>>

GroupPairs(lkeys, rkeys, k) ==
    LET L == PositionsFrom(lkeys, k, 1)
        R == PositionsFrom(rkeys, k, 1)
    IN  IF Len(L) > 0 /\ Len(R) > 0 THEN Product(L, R, 1, 1)
        ELSE IF Len(L) > 0 THEN [a \in 1..Len(L) |-> <<L[a], 0>>]
        ELSE [b \in 1..Len(R) |-> <<0, R[b]>>]

RECURSIVE JoinPairs(_, _, _)
JoinPairs(lkeys, rkeys, groups) ==
    IF Len(groups) = 0 THEN <<>>
    ELSE GroupPairs(lkeys, rkeys, groups[1])
         \o JoinPairs(lkeys, rkeys, Tail(groups))

both == <<"b", "o", "t", "h">>
left_only == <<"l", "e", "f", "t", "_", "o", "n", "l", "y">>
right_only == <<"r", "i", "g", "h", "t", "_", "o", "n", "l", "y">>

(* A column name both sides have gets the suffix _x on the left side and   *)
(* _y on the right side.                                                   *)
LeftName(c, left, right) ==
    IF c \in Range(right.cols) THEN c \o "_x" ELSE c

RightName(c, left, right) ==
    IF c \in Range(left.cols) THEN c \o "_y" ELSE c

MergedColumns(left, right) ==
    [i \in 1..Len(left.cols) |-> LeftName(left.cols[i], left, right)]
    \o [i \in 1..Len(right.cols) |-> RightName(right.cols[i], left, right)]
    \o <<"_merge">>

Indicator(pair) ==
    IF pair[2] = 0 THEN Str(left_only)
    ELSE IF pair[1] = 0 THEN Str(right_only)
    ELSE Str(both)

MergedRow(left, right, pair) ==
    LET lnames == {LeftName(c, left, right) : c \in Range(left.cols)}
        rnames == {RightName(c, left, right) : c \in Range(right.cols)}
    IN  [n \in lnames \cup rnames \cup {"_merge"} |->
           IF n = "_merge" THEN Indicator(pair)
           ELSE IF n \in lnames
           THEN IF pair[1] = 0 THEN NaN
                ELSE left.rows[pair[1]][CHOOSE c \in Range(left.cols) :
                                           LeftName(c, left, right) = n]
           ELSE IF pair[2] = 0 THEN NaN
                ELSE right.rows[pair[2]][CHOOSE c \in Range(right.cols) :
                                            RightName(c, left, right) = n]]

(* A column of integers that received a missing value becomes float64. *)
Upcast(df) ==
    [cols |-> df.cols,
     rows |-> [i \in 1..Len(df.rows) |->
                 [c \in Range(df.cols) |->
                    IF df.rows[i][c].t = "int" /\ Dtype(df, c) = "float64"
                    THEN FloatCell(df.rows[i][c].n)
                    ELSE df.rows[i][c]]]]

OuterJoin(left, right) ==
    LET lkeys == Column(left, "submission_id")
        rkeys == Column(right, "parent_clean_id")
        pairs == JoinPairs(lkeys, rkeys, KeyGroups(lkeys, rkeys))
    IN  Upcast([cols |-> MergedColumns(left, right),
                rows |-> [i \in 1..Len(pairs) |->
                            MergedRow(left, right, pairs[i])]])

pd_merge(left, right) ==
    IF "submission_id" \notin Range(left.cols) THEN Raise("KeyError")
    ELSE IF "_merge" \in Range(left.cols) \cup Range(right.cols)
    THEN Raise("ValueError")
    \* the key columns of two non-empty frames must both hold strings
    ELSE IF Len(left.rows) > 0 /\ Len(right.rows) > 0
            /\ (Dtype(left, "submission_id") = "object")
                 # (Dtype(right, "parent_clean_id") = "object")
    THEN Raise("ValueError")
    ELSE Ok(OuterJoin(left, right))
----------------------------------------------------------------------------
(* DataFrame.to_csv(path, index=False)                                     *)

Pad2(n) == IF n < 10 THEN <<"0">> \o IntToText(n) ELSE IntToText(n)

(* str() of a UTC timestamp: YYYY-MM-DD HH:MM:SS+00:00 *)
DatetimeText(epoch) ==
    LET date == CivilOfDays(epoch \div SecondsPerDay)
        secs == epoch % SecondsPerDay
    IN  IntToText(date.year) \o <<"-">> \o Pad2(date.month) \o <<"-">>
        \o Pad2(date.day) \o <<" ">> \o Pad2(secs \div 3600) \o <<":">>
        \o Pad2((secs % 3600) \div 60) \o <<":">> \o Pad2(secs % 60)
        \o <<"+", "0", "0", ":", "0", "0">>

(* The field written for a cell; a missing value is an empty field. *)
FormatCell(cell) ==
    IF cell.t = "str" THEN cell.s
    ELSE IF cell.t = "int" THEN IntToText(cell.n)
    ELSE IF cell.t = "float" THEN IntToText(cell.n) \o <<".", "0">>
    ELSE IF cell.t = "datetime" THEN DatetimeText(cell.n)
    ELSE <<>>

ToCsv(df) ==
    [kind |-> "csv",
     cols |-> df.cols,
     rows |-> [i \in 1..Len(df.rows) |->
                 [c \in Range(df.cols) |-> FormatCell(df.rows[i][c])]]]

----------------------------------------------------------------------------
(* merge_submissions_comments                                              *)

(* comments["parent_clean_id"] = comments["parent_id"].str.replace(...):   *)
(* a missing column raises, and so does the .str accessor on a column that *)
(* holds no string.                                                        *)
Normalize(comments) ==
    IF "parent_id" \notin Range(comments.cols) THEN Raise("KeyError")
    ELSE IF Dtype(comments, "parent_id") # "object" THEN Raise("AttributeError")
    ELSE LET ids == Column(comments, "parent_id") IN
         Ok(SetColumn(comments, "parent_clean_id",
                      [i \in 1..Len(ids) |-> StrReplace(ids[i])]))

(* The value merge_submissions_comments returns, or the exception it raises *)
(* before it writes. *)
merge_submissions_comments(sub_file, comment_file) ==
    LET submissions == ReadCsvFile(sub_file)
        comments == clean_comments(comment_file)
        normalized == Normalize(comments.df)
        merged == pd_merge(submissions.df, normalized.df)
    IN  IF ~submissions.ok THEN submissions
        ELSE IF ~comments.ok THEN comments
        ELSE IF ~normalized.ok THEN normalized
        ELSE IF ~merged.ok THEN merged
        ELSE Ok(DropColumns(merged.df, LinkFlairColumns))
----------------------------------------------------------------------------
(* load_to_sqlite and count_posts_comments                                 *)

NoTable == [exists |-> FALSE, df |-> EmptyFrame]

(* if_exists='append': the rows are added to the table's. *)
to_sql_append(table, df) ==
    [exists |-> TRUE,
     df |-> [cols |-> df.cols, rows |-> table.df.rows \o df.rows]]

(* df.to_sql('comment_table', conn, if_exists='replace', index=False):     *)
(* the table is dropped and created again from the frame's columns and     *)
(* rows; no index column is written.                                       *)
to_sql(table, df) == [exists |-> TRUE, df |-> df]

(* A load that drops the table before it reads the source. *)
load_to_sqlite_drop_first(table, file) ==
    LET read == ReadCsvFile(file) IN
    IF ~read.ok THEN [table |-> NoTable, ret |-> read]
    ELSE [table |-> to_sql(table, read.df), ret |-> Ok(EmptyFrame)]

(* The table load_to_sqlite leaves and what it returns or raises: the      *)
(* frame is read before anything is written.                               *)
load_to_sqlite(table, file) ==
    LET read == ReadCsvFile(file) IN
    IF ~read.ok THEN [table |-> table, ret |-> read]
    ELSE [table |-> to_sql(table, read.df), ret |-> Ok(EmptyFrame)]

(* SELECT COUNT(c): every value that is not NULL. *)
RECURSIVE CountAll(_, _)
CountAll(cells, i) ==
    IF i > Len(cells) THEN 0
    ELSE CountAll(cells, i + 1) + (IF cells[i] # NaN THEN 1 ELSE 0)

(* SELECT COUNT(DISTINCT c): the values of c that are not NULL, each       *)
(* counted once.                                                           *)
RECURSIVE CountDistinct(_, _)
CountDistinct(cells, i) ==
    IF i > Len(cells) THEN 0
    ELSE CountDistinct(cells, i + 1)
         + (IF cells[i] # NaN /\ \A j \in 1..(i - 1) : cells[j] # cells[i]
            THEN 1 ELSE 0)

NoCounts == <<0, 0>>

(* The pair count_posts_comments returns; a query on a column the table    *)
(* does not have raises.                                                   *)
count_posts_comments(table) ==
    IF ~table.exists
       \/ "parent_id" \notin Range(table.df.cols)
       \/ "comment_id" \notin Range(table.df.cols)
    THEN [ok |-> FALSE, err |-> "DatabaseError", counts |-> NoCounts]
    ELSE [ok |-> TRUE, err |-> "",
          counts |-> <<CountDistinct(Column(table.df, "parent_id"), 1),
                       CountDistinct(Column(table.df, "comment_id"), 1)>>]

----------------------------------------------------------------------------
(* State                                                                   *)

VARIABLES
    fs,         \* the input files: path -> CSV file, missing or malformed
    db,         \* comment_table of the SQLite store
    conn,       \* a connection has been returned by load_to_sqlite
    out,        \* the file at the output path
    call,       \* the last call: [op, a, b]
    result,     \* what the last call returned or raised
    counts,     \* the pair the last count_posts_comments returned
    loaded,     \* the path of the last load that succeeded
    prevLoaded, \* the path of the successful load before that one
    pc          \* position of main()

vars == <<fs, db, conn, out, call, result, counts, loaded, prevLoaded, pc>>

comment_csv == "comments.csv"
submission_csv == "submissions.csv"
Paths == {comment_csv, submission_csv}

Missing == [kind |-> "missing", cols |-> <<>>, rows |-> <<>>]
Malformed == [kind |-> "malformed", cols |-> <<>>, rows |-> <<>>]

NoCall == [op |-> "none", a |-> "", b |-> ""]

InitRest ==
    /\ db = NoTable
    /\ conn = FALSE
    /\ out = Missing
    /\ call = NoCall
    /\ result = Ok(EmptyFrame)
    /\ counts = NoCounts
    /\ loaded = "none"
    /\ prevLoaded = "none"
    /\ pc = "start"

----------------------------------------------------------------------------
(* The operations                                                          *)

(* A write that comes before the steps that can raise. *)
WriteOutputFirst(old, r) == ToCsv(r.df)

(* merged.to_csv(output_path, index=False) is the last statement before the *)
(* return: an exception raised earlier leaves the output path as it was.   *)
WriteOutput(old, r) == IF r.ok THEN ToCsv(r.df) ELSE old

Load(p) ==
    LET r == load_to_sqlite(db, fs[p]) IN
    /\ db' = r.table
    /\ result' = r.ret
    /\ conn' = (conn \/ r.ret.ok)
    /\ loaded' = IF r.ret.ok THEN p ELSE loaded
    /\ prevLoaded' = IF r.ret.ok THEN loaded ELSE prevLoaded
    /\ call' = [op |-> "load", a |-> p, b |-> ""]
    /\ UNCHANGED <<fs, out, counts, pc>>

Count ==
    LET r == count_posts_comments(db) IN
    /\ conn
    /\ result' = [ok |-> r.ok, err |-> r.err, df |-> EmptyFrame]
    /\ counts' = r.counts
    /\ call' = [op |-> "count", a |-> "", b |-> ""]
    /\ UNCHANGED <<fs, db, conn, out, loaded, prevLoaded, pc>>

Clean(p) ==
    /\ result' = clean_comments(fs[p])
    /\ call' = [op |-> "clean", a |-> p, b |-> ""]
    /\ UNCHANGED <<fs, db, conn, out, counts, loaded, prevLoaded, pc>>

Merge(sp, cp) ==
    LET r == merge_submissions_comments(fs[sp], fs[cp]) IN
    /\ result' = r
    /\ out' = WriteOutput(out, r)
    /\ call' = [op |-> "merge", a |-> sp, b |-> cp]
    /\ UNCHANGED <<fs, db, conn, counts, loaded, prevLoaded, pc>>
----------------------------------------------------------------------------
(* main: load, count, merge; an exception ends the run.                    *)

MainLoad ==
    LET r == load_to_sqlite(db, fs[comment_csv]) IN
    /\ pc = "start"
    /\ db' = r.table
    /\ result' = r.ret
    /\ conn' = (conn \/ r.ret.ok)
    /\ loaded' = IF r.ret.ok THEN comment_csv ELSE loaded
    /\ prevLoaded' = IF r.ret.ok THEN loaded ELSE prevLoaded
    /\ call' = [op |-> "load", a |-> comment_csv, b |-> ""]
    /\ pc' = IF r.ret.ok THEN "count" ELSE "aborted"
    /\ UNCHANGED <<fs, out, counts>>

MainCount ==
    LET r == count_posts_comments(db) IN
    /\ pc = "count"
    /\ result' = [ok |-> r.ok, err |-> r.err, df |-> EmptyFrame]
    /\ counts' = r.counts
    /\ call' = [op |-> "count", a |-> "", b |-> ""]
    /\ pc' = IF r.ok THEN "merge" ELSE "aborted"
    /\ UNCHANGED <<fs, db, conn, out, loaded, prevLoaded>>

MainMerge ==
    LET r == merge_submissions_comments(fs[submission_csv], fs[comment_csv]) IN
    /\ pc = "merge"
    /\ result' = r
    /\ out' = WriteOutput(out, r)
    /\ call' = [op |-> "merge", a |-> submission_csv, b |-> comment_csv]
    /\ pc' = IF r.ok THEN "done" ELSE "aborted"
    /\ UNCHANGED <<fs, db, conn, counts, loaded, prevLoaded>>

----------------------------------------------------------------------------------------------------------------------------------------
(* The input files                                                         *)

MaxComments == 2
MaxSubmissions == 2

t3_s1 == <<"t", "3", "_", "s", "1">>
s1 == <<"s", "1">>
s2 == <<"s", "2">>
td_s2 == <<"t", "\\", "d", "_", "s", "2">>
epoch2023 == <<"1", "7", "0", "0", "0", "0", "0", "0", "0", "0">>

CommentRow(id, parent, utc) ==
    [comment_id |-> id, parent_id |-> parent, created_utc |-> utc]

(* Comments with a type-tagged parent, a bare parent, a parent that holds  *)
(* the pattern's literal text, and no parent. *)
CommentRows ==
    {CommentRow(<<"c", "1">>, t3_s1, epoch2023),
     CommentRow(<<"c", "2">>, s1, epoch2023),
     CommentRow(<<"c", "3">>, td_s2, <<"0">>),
     CommentRow(<<"c", "4">>, <<>>, epoch2023)}

(* Comments whose created_utc is no epoch. *)
BadEpochRows ==
    {CommentRow(<<"c", "5">>, s2, <<"a", "b", "c">>),
     CommentRow(<<"c", "6">>, s2, <<>>)}

SubmissionRow(id, title) == [submission_id |-> id, title |-> title]

SubmissionRows ==
    {SubmissionRow(s1, <<"A">>),
     SubmissionRow(s2, <<"B">>),
     SubmissionRow(<<>>, <<"C">>),
     SubmissionRow(<<"7">>, <<"D">>)}

CommentHeader == <<"comment_id", "parent_id", "created_utc">>

CommentHeaders ==
    {CommentHeader,
     <<"comment_id", "author_flair_text", "parent_id", "created_utc",
       "link_flair_text", "title", "author_flair_richtext">>}

ShortCommentHeaders ==
    {<<"comment_id", "created_utc">>,
     <<"comment_id", "parent_id", "author_flair_type">>}

SubmissionHeader == <<"submission_id", "title">>

SubmissionHeaders ==
    {SubmissionHeader,
     <<"submission_id", "title", "link_flair_text", "link_flair_type",
       "author_flair_text">>}

ShortSubmissionHeaders == {<<"title", "link_flair_richtext">>}

(* The file with header cols and one row per base row; a column the base   *)
(* row does not have holds the text x.                                     *)
Csv(cols, base) ==
    [kind |-> "csv",
     cols |-> cols,
     rows |-> [i \in 1..Len(base) |->
                 [c \in Range(cols) |->
                    IF c \in DOMAIN base[i] THEN base[i][c] ELSE <<"x">>]]]

SeqsUpTo(S, n) == UNION {[1..k -> S] : k \in 0..n}

(* Tables of up to MaxComments (MaxSubmissions) rows under the plain       *)
(* header, and of up to one row under the other headers.                   *)
CommentFiles ==
    {Missing, Malformed}
    \cup {Csv(CommentHeader, b) : b \in SeqsUpTo(CommentRows, MaxComments)}
    \cup {Csv(h, b) : h \in CommentHeaders \cup ShortCommentHeaders,
                      b \in SeqsUpTo(CommentRows, 1)}
    \cup {Csv(CommentHeader, <<r>>) : r \in BadEpochRows}

SubmissionFiles ==
    {Missing, Malformed}
    \cup {Csv(SubmissionHeader, b) :
              b \in SeqsUpTo(SubmissionRows, MaxSubmissions)}
    \cup {Csv(h, b) : h \in SubmissionHeaders \cup ShortSubmissionHeaders,
                      b \in SeqsUpTo(SubmissionRows, 1)}

Init ==
    /\ fs \in [Paths -> CommentFiles \cup SubmissionFiles]
    /\ fs[comment_csv] \in CommentFiles
    /\ fs[submission_csv] \in SubmissionFiles
    /\ InitRest

(* The cleaner and the merger, called on the two files. *)
Next ==
    \/ Clean(comment_csv)
    \/ Merge(submission_csv, comment_csv)

Spec == Init /\ [][Next]_vars

(* One run of main. *)
NextMain ==
    \/ MainLoad
    \/ MainCount
    \/ MainMerge

SpecMain == Init /\ [][NextMain]_vars

(* The cleaner on files whose created_utc column is present or not and     *)
(* holds epochs, text or nothing. *)
EpochRows ==
    {CommentRow(<<"c", "1">>, t3_s1, epoch2023),
     CommentRow(<<"c", "3">>, td_s2, <<"0">>)}
    \cup BadEpochRows

CleanHeaders == CommentHeaders \cup {<<"comment_id", "parent_id">>}

CleanFiles ==
    {Missing, Malformed}
    \cup {Csv(h, b) : h \in CleanHeaders, b \in SeqsUpTo(EpochRows, MaxComments)}

InitClean ==
    /\ fs \in [Paths -> CleanFiles]
    /\ fs[submission_csv] \in {Missing, Csv(CommentHeader, <<>>)}
    /\ InitRest

NextClean == \E p \in Paths : Clean(p)

SpecClean == InitClean /\ [][NextClean]_vars

(* The loader and the counts on files with repeated and missing            *)
(* identifiers. *)
LoadRows ==
    {CommentRow(<<"c", "1">>, t3_s1, epoch2023),
     CommentRow(<<"c", "2">>, t3_s1, epoch2023),
     CommentRow(<<"c", "4">>, <<>>, epoch2023),
     CommentRow(<<>>, s1, <<"0">>)}

LoadFiles ==
    {Missing, Malformed}
    \cup {Csv(CommentHeader, b) : b \in SeqsUpTo(LoadRows, MaxComments)}

OtherFiles ==
    {Missing, Malformed}
    \cup {Csv(SubmissionHeader, b) : b \in SeqsUpTo(SubmissionRows, 1)}
    \cup {Csv(CommentHeader, b) : b \in SeqsUpTo(LoadRows, 1)}

InitLoad ==
    /\ fs \in [Paths -> LoadFiles \cup OtherFiles]
    /\ fs[comment_csv] \in LoadFiles
    /\ fs[submission_csv] \in OtherFiles
    /\ InitRest

NextLoad ==
    \/ \E p \in Paths : Load(p)
    \/ Count

SpecLoad == InitLoad /\ [][NextLoad]_vars
----------------------------------------------------------------------------
(* Properties of the merger                                                *)

MergeDone == call.op = "merge" /\ result.ok

(* The frames the last merge joined. *)
Submissions == ReadCsv(fs[call.a])
Comments == Normalize(clean_comments(fs[call.b]).df).df

Rows == result.df.rows
RowIndicator(i) == Rows[i]["_merge"].s

(* Two cells hold the same value; 2023 and 2023.0 are the same number. *)
SameCell(a, b) ==
    \/ a = b
    \/ a.t \in {"int", "float"} /\ b.t \in {"int", "float"} /\ a.n = b.n

(* The row of the result carries row l of the submissions S, row r of the  *)
(* comments C, in the columns of that side the result has.                 *)
CarriesLeft(S, C, row, l) ==
    \A c \in Range(S.cols) :
        LeftName(c, S, C) \in DOMAIN row
        => SameCell(row[LeftName(c, S, C)], S.rows[l][c])
CarriesRight(S, C, row, r) ==
    \A c \in Range(C.cols) :
        RightName(c, S, C) \in DOMAIN row
        => SameCell(row[RightName(c, S, C)], C.rows[r][c])

(* An identifier equals another one; a missing identifier equals none. *)
SameId(a, b) == a.t = "str" /\ a = b

Matching(S, C, l, r) ==
    SameId(S.rows[l]["submission_id"], C.rows[r]["parent_clean_id"])

(* s has the form t<digits>_<rest>; TagEnd is the position of the _ . *)
IsTagEnd(s, k) ==
    /\ k >= 3
    /\ k <= Len(s)
    /\ s[1] = "t"
    /\ s[k] = "_"
    /\ \A i \in 2..(k - 1) : s[i] \in Digits
HasTypeTag(s) == \E k \in 1..Len(s) : IsTagEnd(s, k)
Rest(s) == SubSeq(s, 1 + (CHOOSE k \in 1..Len(s) : IsTagEnd(s, k)), Len(s))

(* C1: in every comments row of the joined output, parent_clean_id is the  *)
(* parent_id without its leading t<digits>_ prefix, and is the parent_id   *)
(* itself when it has no such prefix.                                      *)
C1_PrefixStripped ==
    MergeDone =>
        \A i \in 1..Len(Rows) :
            RowIndicator(i) # left_only =>
                LET p == Rows[i]["parent_id"]
                    q == Rows[i]["parent_clean_id"]
                IN  IF p.t = "str" /\ HasTypeTag(p.s)
                    THEN q = Str(Rest(p.s))
                    ELSE q = p

(* C2: when the merge succeeds, every submissions row and every cleaned    *)
(* comments row is carried by some row of the output, and every pair of    *)
(* rows with equal keys is carried, both sides combined, by as many rows   *)
(* marked both as there are pairs of input rows with those contents:       *)
(* exactly once per pair.                                                  *)
C2_OuterJoinComplete ==
    MergeDone =>
        LET S == Submissions
            C == Comments
            R == result.df.rows
            left == [i \in 1..Len(R) |->
                       {l \in 1..Len(S.rows) : CarriesLeft(S, C, R[i], l)}]
            right == [i \in 1..Len(R) |->
                        {r \in 1..Len(C.rows) : CarriesRight(S, C, R[i], r)}]
        IN  /\ \A l \in 1..Len(S.rows) : \E i \in 1..Len(R) : l \in left[i]
            /\ \A r \in 1..Len(C.rows) : \E i \in 1..Len(R) : r \in right[i]
            /\ \A l \in 1..Len(S.rows), r \in 1..Len(C.rows) :
                   Matching(S, C, l, r) =>
                       Cardinality({i \in 1..Len(R) :
                                       /\ R[i]["_merge"].s = both
                                       /\ l \in left[i]
                                       /\ r \in right[i]})
                       = Cardinality({pr \in (1..Len(S.rows)) \X (1..Len(C.rows)) :
                                         /\ S.rows[pr[1]] = S.rows[l]
                                         /\ C.rows[pr[2]] = C.rows[r]})

(* A merge that joined two submissions with the same identifier to a       *)
(* comment, and kept a submission and a comment that match nothing.        *)
C2_Witness ==
    /\ MergeDone
    /\ \E i, j \in 1..Len(Rows) :
           /\ i # j
           /\ RowIndicator(i) = both
           /\ RowIndicator(j) = both
           /\ Rows[i]["comment_id"] = Rows[j]["comment_id"]
    /\ \E i \in 1..Len(Rows) : RowIndicator(i) = right_only
    /\ Len(Submissions.rows) = 2
    /\ Len(Comments.rows) = 2

ScenarioSubmissions == Csv(SubmissionHeader, <<SubmissionRow(s1, <<"A">>)>>)
ScenarioComments ==
    Csv(CommentHeader, <<CommentRow(<<"c", "1">>, t3_s1, epoch2023)>>)

(* C3: the merge of submissions [{s1, A}] and comments [{c1, t3_s1,        *)
(* 1700000000}] is exactly one row, with submission_id s1, parent_clean_id *)
(* s1, year 2023 and indicator both.                                       *)
C3_Scenario ==
    (/\ call.op = "merge"
     /\ fs[call.a] = ScenarioSubmissions
     /\ fs[call.b] = ScenarioComments)
    => /\ result.ok
       /\ Len(Rows) = 1
       /\ Rows[1]["submission_id"] = Str(s1)
       /\ Rows[1]["parent_clean_id"] = Str(s1)
       /\ Rows[1]["year"].n = 2023
       /\ RowIndicator(1) = both

(* C4: every row of the output is marked left_only, right_only or both; it *)
(* is marked both exactly when it combines a submissions row and a         *)
(* comments row whose submission_id equals the normalized parent           *)
(* identifier; a left_only row is null in every comments column and a      *)
(* right_only row is null in every submissions column.                     *)
C4_Provenance ==
    MergeDone =>
        LET S == Submissions
            C == Comments
            R == result.df.rows
            lnames == {LeftName(c, S, C) : c \in Range(S.cols)}
                      \cap Range(result.df.cols)
            rnames == {RightName(c, S, C) : c \in Range(C.cols)}
                      \cap Range(result.df.cols)
        IN  \A i \in 1..Len(R) :
                /\ R[i]["_merge"].s \in {left_only, right_only, both}
                /\ R[i]["_merge"].s = both
                   <=> \E l \in 1..Len(S.rows), r \in 1..Len(C.rows) :
                           /\ CarriesLeft(S, C, R[i], l)
                           /\ CarriesRight(S, C, R[i], r)
                           /\ Matching(S, C, l, r)
                /\ R[i]["_merge"].s = left_only
                   => \A n \in rnames : R[i][n] = NaN
                /\ R[i]["_merge"].s = right_only
                   => \A n \in lnames : R[i][n] = NaN

(* C9: the drops succeed whether or not the flair columns are there, take  *)
(* away exactly the listed columns that are there and no other column, and *)
(* a second drop changes nothing: the cleaner succeeds on every file with  *)
(* rows of valid epochs, its columns are the file's without the            *)
(* author_flair_* ones plus created_time and year, and the merger's are    *)
(* the joined ones without the link_flair_* ones.                          *)
C9_TolerantDrop ==
    /\ call.op = "clean" =>
           LET f == fs[call.a] IN
           /\ (/\ f.kind = "csv"
               /\ "created_utc" \in Range(f.cols)
               /\ Len(f.rows) > 0
               /\ \A i \in 1..Len(f.rows) :
                      IsNumericText(f.rows[i]["created_utc"]))
              => result.ok
           /\ result.ok =>
                  /\ Range(result.df.cols)
                     = (Range(f.cols) \ AuthorFlairColumns)
                       \cup {"created_time", "year"}
                  /\ DropColumns(result.df, AuthorFlairColumns) = result.df
    /\ MergeDone =>
           LET merged == Range(MergedColumns(Submissions, Comments)) IN
           /\ Range(result.df.cols) = merged \ LinkFlairColumns
           /\ \A c \in Range(fs[call.b].cols) :
                  c \in AuthorFlairColumns
                  <=> (IF c \in Range(Submissions.cols) THEN c \o "_y" ELSE c)
                          \notin merged
           /\ DropColumns(result.df, LinkFlairColumns) = result.df

(* A merge of files that have some of the listed columns, not all. *)
C9_Witness ==
    /\ MergeDone
    /\ "author_flair_text" \in Range(fs[call.b].cols)
    /\ "author_flair_type" \notin Range(fs[call.b].cols)
    /\ "link_flair_type" \in Range(fs[call.a].cols)
    /\ "link_flair_richtext" \notin Range(fs[call.a].cols)
    /\ "link_flair_type" \notin Range(result.df.cols)

----------------------------------------------------------------------------
(* Properties of main                                                      *)

(* C7: the output is written only by a merge whose every step succeeded;   *)
(* a failed step aborts the run with the output path untouched, and merge  *)
(* starts only after load and count succeeded.                             *)
C7_NoOutputOnFailure ==
    /\ ~result.ok => pc = "aborted" /\ out = Missing
    /\ pc = "aborted" => ~result.ok
    /\ out # Missing => pc = "done" /\ call.op = "merge" /\ result.ok
    /\ pc \in {"merge", "done"} => loaded = comment_csv /\ db.exists

(* A run whose merge failed in its last step before the write, the join. *)
C7_Witness ==
    /\ pc = "aborted"
    /\ call.op = "merge"
    /\ ReadCsvFile(fs[submission_csv]).ok
    /\ Normalize(clean_comments(fs[comment_csv]).df).ok
    /\ out = Missing

----------------------------------------------------------------------------
(* Properties of the cleaner                                               *)

BadEpochs(f) ==
    \/ "created_utc" \notin Range(f.cols)
    \/ \E i \in 1..Len(f.rows) : ~IsNumericText(f.rows[i]["created_utc"])

----------------------------------------------------------------------------
(* Properties of the loader and the counts                                 *)

(* C5: after a sequence of loads, the table is the frame of the source of  *)
(* the last load that succeeded: its columns, without an index column, and *)
(* its rows in source order, none from an earlier load.                    *)
C5_DestructiveOverwrite ==
    /\ loaded = "none" => ~db.exists
    /\ loaded # "none" =>
           /\ db.exists
           /\ db.df.cols = fs[loaded].cols
           /\ db.df.rows = ReadCsv(fs[loaded]).rows

(* A second load, of another source, over a table that had rows. *)
C5_Witness ==
    /\ call.op = "load"
    /\ result.ok
    /\ prevLoaded \notin {"none", loaded}
    /\ Len(fs[prevLoaded].rows) > 0
    /\ Len(db.df.rows) > 0
    /\ fs[prevLoaded] # fs[loaded]

DistinctValues(c) == {x \in Range(Column(db.df, c)) : x # NaN}

(* C6: a count returns the number of distinct parent_id values and the     *)
(* number of distinct comment_id values of the table, both at least 0 and  *)
(* at most the number of rows, and leaves the table as it was.             *)
C6_CountDistinct ==
    [][call'.op = "count" =>
          /\ db' = db
          /\ result'.ok =>
                 /\ counts'[1] = Cardinality(DistinctValues("parent_id"))
                 /\ counts'[2] = Cardinality(DistinctValues("comment_id"))
                 /\ counts'[1] >= 0 /\ counts'[1] <= Len(db.df.rows)
                 /\ counts'[2] >= 0 /\ counts'[2] <= Len(db.df.rows)]_vars

(* A count of a table with a repeated and a missing identifier. *)
C6_Witness ==
    /\ call.op = "count"
    /\ result.ok
    /\ counts[1] < Len(db.df.rows)
    /\ counts[2] < Len(db.df.rows)
    /\ counts[1] + counts[2] > 0
    /\ NaN \in Range(Column(db.df, "parent_id"))

(* C10: a load that raises leaves the table an earlier load wrote as it    *)
(* was.                                                                    *)
C10_FailedLoadKeepsTable ==
    [][(call'.op = "load" /\ ~result'.ok) => db' = db]_vars

(* A failed load after a load that wrote rows. *)
C10_Witness ==
    /\ call.op = "load"
    /\ ~result.ok
    /\ db.exists
    /\ Len(db.df.rows) > 0

====
